---- MODULE Spec2Model ----
(***************************************************************************)
(* Model of sushichef.py (sushi-chef-exploratorium).                       *)
(*                                                                         *)
(* Spec         the crawl of construct_channel: the activity menu, its     *)
(*              subject listings, scrape_snack_page with its retries and   *)
(*              the video download, then the video menu, subjects and      *)
(*              collections.                                               *)
(* SpecMapping  get_brightcove_mapping applied to the pages of a bounded   *)
(*              set.                                                       *)
(* SpecStyle    a bounded sequence of scrape_style calls, on one bundle    *)
(*              and across bundles, with the shared asset directory.       *)
(* SpecLinks    the link rewriting of scrape_snack_page, with              *)
(*              generate_download_page and format_url, applied to one      *)
(*              anchor of a bounded set, up to the entry document.         *)
(***************************************************************************)
EXTENDS Integers, Sequences, FiniteSets, TLC

VARIABLES
    pc,          \* position of the crawl
    subjIdx,     \* index of the subject being scraped (activity or video menu)
    listing,     \* url of the listing / collection page being read
    itemIdx,     \* index of the activity / search result on that page
    collIdx,     \* index of the collection of the current video subject
    topic,       \* TopicNode that receives the children
    children,    \* topic -> sequence of source_ids of its children
    onDisk,      \* slugs whose zip exists in SNACK_DIRECTORY (os.path.isfile)
    bundle,      \* slug -> names stored in that zip
    videoFiles,  \* video ids whose mp4 exists in VIDEO_DIRECTORY
    logged,      \* LOGGER.error messages emitted so far (as a set)
    raisedFrom,  \* function whose exception left construct_channel, or None
    slug,        \* argument of the running scrape_snack_page
    attempts,    \* its attempts argument
    tags,        \* whether the running frame has gathered its tags
    vidIdx,      \* index of the video being embedded
    dlAttempts,  \* attempts argument of the running download
    ret,         \* [path, tags] returned by the last scrape_snack_page
    call,        \* observations of the running scrape_snack_page call
    \* get_brightcove_mapping on its own (SpecMapping)
    mpc,         \* "call" or "returned"
    argContents, \* the parsed page it is given (contents)
    argGetPlaylist, \* its flag (get_playlist)
    mapping,     \* the dict it returns
    \* the link rewriting of scrape_snack_page on its own (SpecLinks)
    lpc,         \* position: "links", "link", "write", "done", "except"
    parent,      \* tag of the element that holds the anchor
    anchor,      \* the anchor as it is in the fetched page
    para,        \* the nodes of that element, in order
    zipBefore,   \* names in the zip when the link rewriting begins
    zipNames,    \* names in the zip (zf.namelist())
    linkLog,     \* LOGGER.error messages of the link rewriting
    outer,       \* tag of a p or li further up that also holds the anchor, or None
    pending,     \* elements of find_all('p') + find_all('li') above the anchor
                 \* that the loop has yet to reach
    applied,     \* the branches taken for the anchor so far, in order
    \* scrape_style on its own (SpecStyle)
    spc,         \* position: "parse", "urls", "returned", "raised"
    sheet,       \* the urls cssutils.getUrls yields for the parsed stylesheet
    rules,       \* the url(...) references of the stylesheet's text, in order
    urlIdx,      \* index of the url the loop is at
    zipper,      \* the bundle the running call writes to
    cache,       \* filename -> state of the file in SHARED_ASSET_DIRECTORY
    fetched,     \* filename -> number of read(url) calls made for it so far
    assets,      \* bundle -> the <<filename, content>> stored under assets/
    httpFailed,  \* urls of the running call whose read raised HTTPError
    nSheets      \* number of scrape_style calls begun

mainVars == <<pc, subjIdx, listing, itemIdx, collIdx, topic, children, onDisk,
              bundle, videoFiles, logged, raisedFrom, slug, attempts, tags,
              vidIdx, dlAttempts, ret, call>>

mappingVars == <<mpc, argContents, argGetPlaylist, mapping>>

\* the variables the crawl leaves alone
linkVars == <<lpc, parent, anchor, para, zipBefore, zipNames, linkLog, outer,
              pending, applied>>

styleVars == <<spc, sheet, rules, urlIdx, zipper, cache, fetched, assets,
               httpFailed, nSheets>>

auxVars == <<mappingVars, linkVars, styleVars>>

vars == <<mainVars, auxVars>>

None == "None"

-----------------------------------------------------------------------------
(* Run constants                                                           *)

DOWNLOAD_ATTEMPTS == 25

\* default of the attempts parameter of scrape_snack_page
DefaultAttempts == 5

-----------------------------------------------------------------------------
(* The site that is crawled: the pages read(url) returns.                  *)

\* top-level li elements of the activity menu, in document order
SnackMenu == <<"/subject/a", "/subject/b">>

\* activity listing pages: the hrefs of their div.activity, and li.pager-next
SnackListing ==
    [u \in {"/subject/a", "/subject/a?page=1", "/subject/b"} |->
        CASE u = "/subject/a"        -> [activities |-> <<"/snacks/x", "/snacks/y">>,
                                         next |-> "/subject/a?page=1"]
          [] u = "/subject/a?page=1" -> [activities |-> <<"/snacks/x">>, next |-> None]
          [] u = "/subject/b"        -> [activities |-> <<"/snacks/y">>, next |-> None]]

Slugs == {"/snacks/x", "/snacks/y"}

\* div.subject elements of the video menu
VideoMenu == <<"/video/subject/1">>

\* li elements of a video subject page's sidebar
VideoSubject == [u \in {"/video/subject/1"} |-> <<"/video/c1", "/video/c2">>]

\* collection pages: their div.search-result links, and li.pager-next
VideoCollection ==
    [u \in {"/video/c1", "/video/c1?page=1", "/video/c2"} |->
        CASE u = "/video/c1"        -> [results |-> <<"/video/r1", "/video/r2">>,
                                        next |-> "/video/c1?page=1"]
          [] u = "/video/c1?page=1" -> [results |-> <<"/video/r1">>, next |-> None]
          [] u = "/video/c2"        -> [results |-> <<"/video/r2">>, next |-> None]]

Topics == {"/subject/a", "/subject/b", "/video/c1", "/video/c2"}

\* what read(url) can raise
ReadErrors == {"HTTPError", "ConnectionError"}

-----------------------------------------------------------------------------
(* Brightcove embeds.  A parsed page holds its video.bc5player elements    *)
(* (account, player, id), the text of its first div.attribution (or None)  *)
(* and, when it has a div#media-collection-banner-playlist (has_playlist), *)
(* the div.playlist-item elements of that div.                             *)

\* BRIGHTCOVE_URL.format(account=..., player=..., videoid=...)
BRIGHTCOVE_URL(account, player, videoid) == <<account, player, videoid>>

EmptyDict == [keys |-> << >>, val |-> << >>]

SeqRange(s) == {s[i] : i \in DOMAIN s}

HasKey(d, k) == k \in SeqRange(d.keys)

\* dict.update({k: v}): the value of k is replaced whole, k keeps its position
DictUpdate(d, k, v) ==
    IF HasKey(d, k)
    THEN [keys |-> d.keys,
          val  |-> [i \in DOMAIN d.keys |-> IF d.keys[i] = k THEN v ELSE d.val[i]]]
    ELSE [keys |-> Append(d.keys, k), val |-> Append(d.val, v)]

DictGet(d, k) == d.val[CHOOSE i \in DOMAIN d.keys : d.keys[i] = k]

\* entry of a video.bc5player element: the keys original_el, author, url
\* (original_el is the index of the element; 0 and None stand for a missing key)
DirectEntry(contents, i) ==
    [original_el |-> i,
     author      |-> contents.attribution,
     title       |-> None,
     append_to   |-> None,
     url         |-> BRIGHTCOVE_URL(contents.videos[i].account,
                                    contents.videos[i].player,
                                    contents.videos[i].id)]

\* entry of a div.playlist-item element: the keys title, append_to, url
PlaylistEntry(item, account) ==
    [original_el |-> 0,
     author      |-> None,
     title       |-> item.title,
     append_to   |-> "playlist",
     url         |-> BRIGHTCOVE_URL(account, item.pid, item.id)]

\* the "Get main videos" loop: the mapping after the first n elements
RECURSIVE MainVideos(_, _)
MainVideos(contents, n) ==
    IF n = 0 THEN EmptyDict
    ELSE DictUpdate(MainVideos(contents, n - 1),
                    contents.videos[n].id, DirectEntry(contents, n))

\* an account that is set by the first element only
AccountOfFirstVideo(contents) ==
    IF Len(contents.videos) = 0 THEN ""
    ELSE contents.videos[1].account

\* the value of the local account when the first loop has ended
AccountAfterMainVideos(contents) ==
    IF Len(contents.videos) = 0 THEN ""
    ELSE contents.videos[Len(contents.videos)].account

\* the playlist loop: the mapping after the first n playlist items
RECURSIVE PlaylistVideos(_, _, _, _)
PlaylistVideos(d, items, account, n) ==
    IF n = 0 THEN d
    ELSE DictUpdate(PlaylistVideos(d, items, account, n - 1),
                    items[n].id, PlaylistEntry(items[n], account))

get_brightcove_mapping(contents, get_playlist) ==
    LET main == MainVideos(contents, Len(contents.videos))
    IN  IF get_playlist /\ contents.has_playlist
        THEN PlaylistVideos(main, contents.playlist,
                            AccountAfterMainVideos(contents), Len(contents.playlist))
        ELSE main

\* the video pages the search results of the collections link to
VideoPage ==
    [u \in {"/video/r1", "/video/r2"} |->
        IF u = "/video/r1"
        THEN [videos |-> <<[account |-> "a1", player |-> "p1", id |-> "v1"]>>,
              attribution |-> "Exploratorium",
              has_playlist |-> FALSE, playlist |-> << >>]
        ELSE [videos |-> <<[account |-> "a1", player |-> "p1", id |-> "v2"],
                           [account |-> "a1", player |-> "p1", id |-> "v1"]>>,
              attribution |-> None, has_playlist |-> FALSE, playlist |-> << >>]]

\* the activity pages, as far as their brightcove embeds go
ActivityPage ==
    [s \in Slugs |->
        IF s = "/snacks/x"
        THEN [videos |-> <<[account |-> "a1", player |-> "p1", id |-> "v1"]>>,
              attribution |-> None, has_playlist |-> FALSE, playlist |-> << >>]
        ELSE [videos |-> <<[account |-> "a1", player |-> "p2", id |-> "v1"]>>,
              attribution |-> "Exploratorium",
              has_playlist |-> FALSE, playlist |-> << >>]]

\* ids of the videos scrape_snack_page embeds, in the order of the mapping
PageVideos(s) == get_brightcove_mapping(ActivityPage[s], TRUE).keys



-----------------------------------------------------------------------------
(* State of the crawl                                                      *)

crawlVars == <<subjIdx, listing, itemIdx, collIdx, topic, children>>
diskVars  == <<onDisk, bundle, videoFiles>>
pageVars  == <<slug, attempts, tags, vidIdx, dlAttempts, ret, call>>

\* os.path.sep.join([SNACK_DIRECTORY, "<last segment of slug>.zip"]); the slugs of
\* the site differ in their last segment, so the slug stands for the path
write_to_path(s) == s

\* a path with `not path` true
NoPath == ""

\* the name write_index_contents stores the entry document under
IndexEntry == <<"", "index.html">>

\* the names scrape_snack_page stores in the zip of slug s when nothing raises
\* (a name is <<directory, filename>>; "*" stands for the files of the page there)
FullBundle(s) ==
    {<<"css", "*">>, <<"images", "*">>, IndexEntry}
        \cup {<<"videos", k>> : k \in SeqRange(PageVideos(s))}

NoCall ==
    [existed |-> FALSE, started |-> 0, fetches |-> 0, opened |-> 0,
     downloads |-> 0, dlTries |-> 0, dlLogs |-> 0, dlExhausted |-> FALSE,
     failedOpen |-> FALSE, scrapeLogs |-> 0, outcome |-> None, added |-> FALSE]

\* no scrape_snack_page is running and none has returned a value not yet used
NoPage ==
    /\ slug = None /\ attempts = 0 /\ tags = FALSE /\ vidIdx = 1 /\ dlAttempts = 0
    /\ ret = [path |-> NoPath, tags |-> FALSE]
    /\ call = NoCall

\* the frames of scrape_snack_page are gone and its value has been used
PageReturned ==
    /\ attempts' = 0 /\ tags' = FALSE /\ vidIdx' = 1 /\ dlAttempts' = 0
    /\ ret' = [path |-> NoPath, tags |-> FALSE]

\* the loop over the activities of a listing page is left
ActivityDone ==
    /\ slug' = None
    /\ call' = NoCall

MainInit ==
    /\ pc = "start"
    /\ subjIdx = 1 /\ listing = None /\ itemIdx = 1 /\ collIdx = 1
    /\ topic = None
    /\ children = [t \in Topics |-> << >>]
    /\ onDisk = {}
    /\ bundle = [s \in Slugs |-> {}]
    /\ videoFiles = {}
    /\ logged = {}
    /\ raisedFrom = None
    /\ NoPage

\* get_brightcove_mapping is not under study
MappingIdle ==
    /\ mpc = "idle"
    /\ argContents = [videos |-> << >>, attribution |-> None,
                      has_playlist |-> FALSE, playlist |-> << >>]
    /\ argGetPlaylist = FALSE
    /\ mapping = EmptyDict

\* the link rewriting is not under study
LinksIdle ==
    /\ lpc = "idle"
    /\ parent = None
    /\ anchor = [href |-> << >>, text |-> << >>, kind |-> "text"]
    /\ para = << >>
    /\ zipBefore = {}
    /\ zipNames = {}
    /\ linkLog = {}
    /\ outer = None
    /\ pending = 0
    /\ applied = << >>

\* names of the files the stylesheets of the site refer to
AssetFilenames == {<<"icon", ".png">>, <<"bg", ".gif">>}

Bundles == {"zip1", "zip2"}

\* scrape_style is not under study
StyleIdle ==
    /\ spc = "idle"
    /\ sheet = << >>
    /\ rules = << >>
    /\ urlIdx = 1
    /\ zipper = None
    /\ cache = [f \in AssetFilenames |-> "absent"]
    /\ fetched = [f \in AssetFilenames |-> 0]
    /\ assets = [b \in Bundles |-> {}]
    /\ httpFailed = {}
    /\ nSheets = 0

Init == MainInit /\ MappingIdle /\ LinksIdle /\ StyleIdle

\* an exception leaves construct_channel
Raise(fn) ==
    /\ pc' = "raised"
    /\ raisedFrom' = fn

-----------------------------------------------------------------------------
(* construct_channel, scrape_snack_menu, scrape_snack_subject              *)

construct_channel ==
    /\ pc = "start"
    /\ pc' = "snack_menu"
    /\ UNCHANGED <<auxVars, crawlVars, diskVars, pageVars, logged, raisedFrom>>

scrape_snack_menu_read ==
    /\ pc = "snack_menu"
    /\ pc' = "snack_menu_loop"
    /\ subjIdx' = 1
    /\ UNCHANGED <<auxVars, listing, itemIdx, collIdx, topic, children, diskVars, pageVars,
                   logged, raisedFrom>>

scrape_snack_menu_read_raises ==
    /\ pc = "snack_menu"
    /\ Raise("scrape_snack_menu")
    /\ UNCHANGED <<auxVars, crawlVars, diskVars, pageVars, logged>>

\* the next top-level li: its topic is added and its listing scraped
scrape_snack_menu_next ==
    /\ pc = "snack_menu_loop"
    /\ subjIdx <= Len(SnackMenu)
    /\ topic' = SnackMenu[subjIdx]
    /\ listing' = SnackMenu[subjIdx]
    /\ pc' = "snack_subject"
    /\ UNCHANGED <<auxVars, subjIdx, itemIdx, collIdx, children, diskVars, pageVars,
                   logged, raisedFrom>>

scrape_snack_menu_return ==
    /\ pc = "snack_menu_loop"
    /\ subjIdx > Len(SnackMenu)
    /\ pc' = "video_menu"
    /\ UNCHANGED <<auxVars, crawlVars, diskVars, pageVars, logged, raisedFrom>>

\* contents = BeautifulSoup(read(slug), 'html5lib')
scrape_snack_subject_read ==
    /\ pc = "snack_subject"
    /\ itemIdx' = 1
    /\ pc' = "snack_subject_loop"
    /\ UNCHANGED <<auxVars, subjIdx, listing, collIdx, topic, children, diskVars, pageVars,
                   logged, raisedFrom>>

\* read(slug) raises: scrape_snack_subject and its callers have no handler
scrape_snack_subject_read_raises ==
    /\ pc = "snack_subject"
    /\ Raise("scrape_snack_subject")
    /\ UNCHANGED <<auxVars, crawlVars, diskVars, pageVars, logged>>

\* the next div.activity: scrape_snack_page(activity.find('a')['href'])
scrape_snack_subject_activity ==
    /\ pc = "snack_subject_loop"
    /\ itemIdx <= Len(SnackListing[listing].activities)
    /\ slug' = SnackListing[listing].activities[itemIdx]
    /\ attempts' = DefaultAttempts
    /\ tags' = FALSE
    /\ vidIdx' = 1
    /\ call' = [NoCall EXCEPT !.existed = slug' \in onDisk, !.started = 1,
                              !.outcome = "running"]
    /\ pc' = "page_fetch"
    /\ UNCHANGED <<auxVars, crawlVars, diskVars, dlAttempts, ret, logged, raisedFrom>>

\* if not write_to_path: continue; else topic.add_child(nodes.HTML5AppNode(...))
scrape_snack_subject_result ==
    /\ pc = "snack_subject_result"
    /\ children' = IF ret.path = NoPath
                   THEN children
                   ELSE [children EXCEPT ![topic] = Append(@, slug)]
    /\ itemIdx' = itemIdx + 1
    /\ pc' = "snack_subject_loop"
    /\ call' = [call EXCEPT !.added = (ret.path # NoPath)]
    /\ PageReturned
    /\ UNCHANGED <<auxVars, subjIdx, listing, collIdx, topic, diskVars, slug, logged, raisedFrom>>

\* Scrape next page (if any)
scrape_snack_subject_next_page ==
    /\ pc = "snack_subject_loop"
    /\ itemIdx > Len(SnackListing[listing].activities)
    /\ SnackListing[listing].next # None
    /\ listing' = SnackListing[listing].next
    /\ pc' = "snack_subject"
    /\ ActivityDone
    /\ UNCHANGED <<auxVars, subjIdx, itemIdx, collIdx, topic, children, diskVars, attempts,
                   tags, vidIdx, dlAttempts, ret, logged, raisedFrom>>

scrape_snack_subject_return ==
    /\ pc = "snack_subject_loop"
    /\ itemIdx > Len(SnackListing[listing].activities)
    /\ SnackListing[listing].next = None
    /\ subjIdx' = subjIdx + 1
    /\ pc' = "snack_menu_loop"
    /\ ActivityDone
    /\ UNCHANGED <<auxVars, listing, itemIdx, collIdx, topic, children, diskVars, attempts,
                   tags, vidIdx, dlAttempts, ret, logged, raisedFrom>>


-----------------------------------------------------------------------------
(* scrape_snack_page(slug, attempts=5)                                     *)

\* the existence check answers "no" whatever is on disk
BundleIsFile_never(s) == FALSE

\* os.path.isfile(write_to_path)
BundleIsFile(s) == s \in onDisk

\* the frame's exception handler is entered; HTMLWriter.__exit__ has closed the
\* zip when it was open, and the file stays where zipfile.ZipFile(path, "w") made it
PageRaise(afterOpen) ==
    /\ pc' = "page_except"
    /\ call' = [call EXCEPT !.failedOpen = @ \/ afterOpen]

\* contents = BeautifulSoup(read(slug), 'html5lib') and the keywords
scrape_snack_page_fetch ==
    /\ pc = "page_fetch"
    /\ tags' = TRUE
    /\ call' = [call EXCEPT !.fetches = @ + 1]
    /\ pc' = "page_check"
    /\ UNCHANGED <<auxVars, crawlVars, diskVars, slug, attempts, vidIdx, dlAttempts, ret,
                   logged, raisedFrom>>

scrape_snack_page_fetch_raises ==
    /\ pc = "page_fetch"
    /\ call' = [call EXCEPT !.fetches = @ + 1]
    /\ pc' = "page_except"
    /\ UNCHANGED <<auxVars, crawlVars, diskVars, slug, attempts, tags, vidIdx, dlAttempts,
                   ret, logged, raisedFrom>>

\* Don't rezip activities that have already been zipped
scrape_snack_page_existing ==
    /\ pc = "page_check"
    /\ BundleIsFile(slug)
    /\ ret' = [path |-> write_to_path(slug), tags |-> tags]
    /\ call' = [call EXCEPT !.outcome = "existing"]
    /\ pc' = "snack_subject_result"
    /\ UNCHANGED <<auxVars, crawlVars, diskVars, slug, attempts, tags, vidIdx, dlAttempts,
                   logged, raisedFrom>>

\* with html_writer.HTMLWriter(write_to_path) as zipper: the zip is created empty
scrape_snack_page_open ==
    /\ pc = "page_check"
    /\ ~BundleIsFile(slug)
    /\ onDisk' = onDisk \cup {slug}
    /\ bundle' = [bundle EXCEPT ![slug] = {}]
    /\ call' = [call EXCEPT !.opened = @ + 1]
    /\ pc' = "page_styles"
    /\ UNCHANGED <<auxVars, crawlVars, videoFiles, slug, attempts, tags, vidIdx, dlAttempts,
                   ret, logged, raisedFrom>>

\* Scrape stylesheets
scrape_snack_page_styles ==
    /\ pc = "page_styles"
    /\ bundle' = [bundle EXCEPT ![slug] = @ \cup {<<"css", "*">>}]
    /\ pc' = "page_prune"
    /\ UNCHANGED <<auxVars, crawlVars, onDisk, videoFiles, pageVars, logged, raisedFrom>>

scrape_snack_page_styles_raises ==
    /\ pc = "page_styles"
    /\ PageRaise(TRUE)
    /\ UNCHANGED <<auxVars, crawlVars, diskVars, slug, attempts, tags, vidIdx, dlAttempts,
                   ret, logged, raisedFrom>>

\* Remove scripts and any unneeded sections; the slideshow's style
scrape_snack_page_prune ==
    /\ pc = "page_prune"
    /\ pc' = "page_images"
    /\ UNCHANGED <<auxVars, crawlVars, diskVars, pageVars, logged, raisedFrom>>

\* Add images
scrape_snack_page_images ==
    /\ pc = "page_images"
    /\ bundle' = [bundle EXCEPT ![slug] = @ \cup {<<"images", "*">>}]
    /\ vidIdx' = 1
    /\ pc' = "page_videos"
    /\ UNCHANGED <<auxVars, crawlVars, onDisk, videoFiles, slug, attempts, tags, dlAttempts,
                   ret, call, logged, raisedFrom>>

scrape_snack_page_images_raises ==
    /\ pc = "page_images"
    /\ PageRaise(TRUE)
    /\ UNCHANGED <<auxVars, crawlVars, diskVars, slug, attempts, tags, vidIdx, dlAttempts,
                   ret, logged, raisedFrom>>

\* download_web_video: the mp4 is there already; generate_video_tag stores it
scrape_snack_page_video_cached ==
    /\ pc = "page_videos"
    /\ vidIdx <= Len(PageVideos(slug))
    /\ PageVideos(slug)[vidIdx] \in videoFiles
    /\ bundle' = [bundle EXCEPT ![slug] = @ \cup {<<"videos", PageVideos(slug)[vidIdx]>>}]
    /\ vidIdx' = vidIdx + 1
    /\ UNCHANGED <<auxVars, pc, crawlVars, onDisk, videoFiles, slug, attempts, tags,
                   dlAttempts, ret, call, logged, raisedFrom>>

\* download_web_video: download(url, write_to_path) with attempts=DOWNLOAD_ATTEMPTS
download_web_video ==
    /\ pc = "page_videos"
    /\ vidIdx <= Len(PageVideos(slug))
    /\ PageVideos(slug)[vidIdx] \notin videoFiles
    /\ dlAttempts' = DOWNLOAD_ATTEMPTS
    /\ call' = [call EXCEPT !.dlTries = 0, !.dlLogs = 0]
    /\ pc' = "download"
    /\ UNCHANGED <<auxVars, crawlVars, diskVars, slug, attempts, tags, vidIdx, ret,
                   logged, raisedFrom>>

\* if attempts > 0 (of download)
download_retries(a) == a > 0

\* ydl.download([url]) returns; generate_video_tag stores the mp4 in the zip
download_ok ==
    /\ pc = "download"
    /\ videoFiles' = videoFiles \cup {PageVideos(slug)[vidIdx]}
    /\ bundle' = [bundle EXCEPT ![slug] = @ \cup {<<"videos", PageVideos(slug)[vidIdx]>>}]
    /\ call' = [call EXCEPT !.downloads = @ + 1, !.dlTries = @ + 1]
    /\ vidIdx' = vidIdx + 1
    /\ pc' = "page_videos"
    /\ UNCHANGED <<auxVars, crawlVars, onDisk, slug, attempts, tags, dlAttempts, ret,
                   logged, raisedFrom>>

\* DownloadError with attempts left: download(url, write_to_path, attempts-1)
download_error_retry ==
    /\ pc = "download"
    /\ download_retries(dlAttempts)
    /\ dlAttempts' = dlAttempts - 1
    /\ call' = [call EXCEPT !.downloads = @ + 1, !.dlTries = @ + 1]
    /\ UNCHANGED <<auxVars, pc, crawlVars, diskVars, slug, attempts, tags, vidIdx, ret,
                   logged, raisedFrom>>

\* the last DownloadError is logged and not raised: the page goes on without the video
download_error_swallowed ==
    /\ pc = "download"
    /\ ~download_retries(dlAttempts)
    /\ logged' = logged \cup {<<"Could not download video", PageVideos(slug)[vidIdx]>>}
    /\ call' = [call EXCEPT !.downloads = @ + 1, !.dlTries = @ + 1,
                            !.dlLogs = @ + 1, !.dlExhausted = TRUE]
    /\ vidIdx' = vidIdx + 1
    /\ pc' = "page_videos"
    /\ UNCHANGED <<auxVars, crawlVars, diskVars, slug, attempts, tags, dlAttempts, ret,
                   raisedFrom>>

\* DownloadError with no attempt left: LOGGER.error(...); raise e.  The error
\* passes through every frame of download and through download_web_video
download_error_raise ==
    /\ pc = "download"
    /\ ~download_retries(dlAttempts)
    /\ logged' = logged \cup {<<"Could not download video", PageVideos(slug)[vidIdx]>>}
    /\ call' = [call EXCEPT !.downloads = @ + 1, !.dlTries = @ + 1,
                            !.dlLogs = @ + 1, !.dlExhausted = TRUE,
                            !.failedOpen = TRUE]
    /\ pc' = "page_except"
    /\ UNCHANGED <<auxVars, crawlVars, diskVars, slug, attempts, tags, vidIdx, dlAttempts,
                   ret, raisedFrom>>

\* every video is embedded; the playlist element (if any) is removed
scrape_snack_page_videos_done ==
    /\ pc = "page_videos"
    /\ vidIdx > Len(PageVideos(slug))
    /\ pc' = "page_links"
    /\ UNCHANGED <<auxVars, crawlVars, diskVars, pageVars, logged, raisedFrom>>

\* Handle links
scrape_snack_page_links ==
    /\ pc = "page_links"
    /\ pc' = "page_write"
    /\ UNCHANGED <<auxVars, crawlVars, diskVars, pageVars, logged, raisedFrom>>

scrape_snack_page_links_raises ==
    /\ pc = "page_links"
    /\ PageRaise(TRUE)
    /\ UNCHANGED <<auxVars, crawlVars, diskVars, slug, attempts, tags, vidIdx, dlAttempts,
                   ret, logged, raisedFrom>>

\* zipper.write_index_contents(...); return write_to_path, tags
scrape_snack_page_write ==
    /\ pc = "page_write"
    /\ bundle' = [bundle EXCEPT ![slug] = @ \cup {IndexEntry}]
    /\ ret' = [path |-> write_to_path(slug), tags |-> tags]
    /\ call' = [call EXCEPT !.outcome = "written"]
    /\ pc' = "snack_subject_result"
    /\ UNCHANGED <<auxVars, crawlVars, onDisk, videoFiles, slug, attempts, tags, vidIdx,
                   dlAttempts, logged, raisedFrom>>

\* if attempts > 0 (of scrape_snack_page)
scrape_snack_page_retries(a) == a > 0

\* a handler that goes on at the link step instead of calling scrape_snack_page
scrape_snack_page_resume ==
    /\ pc = "page_except"
    /\ scrape_snack_page_retries(attempts)
    /\ attempts' = attempts - 1
    /\ call' = [call EXCEPT !.started = @ + 1, !.dlExhausted = FALSE]
    /\ pc' = "page_links"
    /\ UNCHANGED <<auxVars, crawlVars, diskVars, slug, tags, vidIdx, dlAttempts, ret,
                   logged, raisedFrom>>

\* except Exception: return scrape_snack_page(slug, attempts=attempts-1)
scrape_snack_page_retry ==
    /\ pc = "page_except"
    /\ scrape_snack_page_retries(attempts)
    /\ attempts' = attempts - 1
    /\ tags' = FALSE
    /\ vidIdx' = 1
    /\ call' = [call EXCEPT !.started = @ + 1, !.dlExhausted = FALSE]
    /\ pc' = "page_fetch"
    /\ UNCHANGED <<auxVars, crawlVars, diskVars, slug, dlAttempts, ret, logged, raisedFrom>>

\* except Exception: LOGGER.error("Could not scrape ..."); return write_to_path, tags
scrape_snack_page_give_up ==
    /\ pc = "page_except"
    /\ ~scrape_snack_page_retries(attempts)
    /\ logged' = logged \cup {<<"Could not scrape", slug>>}
    /\ ret' = [path |-> write_to_path(slug), tags |-> tags]
    /\ call' = [call EXCEPT !.scrapeLogs = @ + 1, !.outcome = "gave_up"]
    /\ pc' = "snack_subject_result"
    /\ UNCHANGED <<auxVars, crawlVars, diskVars, slug, attempts, tags, vidIdx, dlAttempts,
                   raisedFrom>>


-----------------------------------------------------------------------------
(* scrape_video_menu, scrape_video_subject, scrape_video_collection        *)

scrape_video_menu_read ==
    /\ pc = "video_menu"
    /\ subjIdx' = 1
    /\ pc' = "video_menu_loop"
    /\ UNCHANGED <<auxVars, listing, itemIdx, collIdx, topic, children, diskVars, pageVars,
                   logged, raisedFrom>>

scrape_video_menu_read_raises ==
    /\ pc = "video_menu"
    /\ Raise("scrape_video_menu")
    /\ UNCHANGED <<auxVars, crawlVars, diskVars, pageVars, logged>>

\* the next div.subject: scrape_video_subject(subject.find('a')['href'], topic)
scrape_video_menu_next ==
    /\ pc = "video_menu_loop"
    /\ subjIdx <= Len(VideoMenu)
    /\ listing' = VideoMenu[subjIdx]
    /\ pc' = "video_subject"
    /\ UNCHANGED <<auxVars, subjIdx, itemIdx, collIdx, topic, children, diskVars, pageVars,
                   logged, raisedFrom>>

scrape_video_menu_return ==
    /\ pc = "video_menu_loop"
    /\ subjIdx > Len(VideoMenu)
    /\ pc' = "validate"
    /\ UNCHANGED <<auxVars, crawlVars, diskVars, pageVars, logged, raisedFrom>>

scrape_video_subject_read ==
    /\ pc = "video_subject"
    /\ collIdx' = 1
    /\ pc' = "video_subject_loop"
    /\ UNCHANGED <<auxVars, subjIdx, listing, itemIdx, topic, children, diskVars, pageVars,
                   logged, raisedFrom>>

\* read(url) raises: scrape_video_subject and its callers have no handler
scrape_video_subject_read_raises ==
    /\ pc = "video_subject"
    /\ Raise("scrape_video_subject")
    /\ UNCHANGED <<auxVars, crawlVars, diskVars, pageVars, logged>>

\* the next li of the sidebar: scrape_video_collection(href, collection_topic)
scrape_video_subject_collection ==
    /\ pc = "video_subject_loop"
    /\ collIdx <= Len(VideoSubject[VideoMenu[subjIdx]])
    /\ topic' = VideoSubject[VideoMenu[subjIdx]][collIdx]
    /\ listing' = VideoSubject[VideoMenu[subjIdx]][collIdx]
    /\ pc' = "video_collection"
    /\ UNCHANGED <<auxVars, subjIdx, itemIdx, collIdx, children, diskVars, pageVars,
                   logged, raisedFrom>>

scrape_video_subject_return ==
    /\ pc = "video_subject_loop"
    /\ collIdx > Len(VideoSubject[VideoMenu[subjIdx]])
    /\ subjIdx' = subjIdx + 1
    /\ pc' = "video_menu_loop"
    /\ UNCHANGED <<auxVars, listing, itemIdx, collIdx, topic, children, diskVars, pageVars,
                   logged, raisedFrom>>

\* except requests.exceptions.HTTPError: LOGGER.error(...); the collection is left,
\* also when the page read was a next page (every frame of the recursion returns)
CollectionHTTPError ==
    /\ logged' = logged \cup {<<"Could not read collection", listing>>}
    /\ collIdx' = collIdx + 1
    /\ pc' = "video_subject_loop"
    /\ UNCHANGED <<auxVars, subjIdx, listing, itemIdx, topic, children, diskVars, pageVars,
                   raisedFrom>>

\* any other exception of read passes through scrape_video_collection
CollectionOtherError ==
    /\ Raise("scrape_video_collection")
    /\ UNCHANGED <<auxVars, crawlVars, diskVars, pageVars, logged>>

\* collection_contents = BeautifulSoup(read(url), 'html5lib')
scrape_video_collection_read ==
    /\ pc = "video_collection"
    /\ itemIdx' = 1
    /\ pc' = "video_collection_loop"
    /\ UNCHANGED <<auxVars, subjIdx, listing, collIdx, topic, children, diskVars, pageVars,
                   logged, raisedFrom>>

scrape_video_collection_read_http_error ==
    /\ pc = "video_collection"
    /\ CollectionHTTPError

scrape_video_collection_read_raises ==
    /\ pc = "video_collection"
    /\ CollectionOtherError

\* If video doesn't already exist here, add to topic: for the first n keys
RECURSIVE AddVideos(_, _, _)
AddVideos(kids, keys, n) ==
    IF n = 0 THEN kids
    ELSE LET before == AddVideos(kids, keys, n - 1)
         IN  IF keys[n] \in SeqRange(before) THEN before ELSE Append(before, keys[n])

\* the next div.search-result: its video page is read and its videos are added
scrape_video_collection_result ==
    /\ pc = "video_collection_loop"
    /\ itemIdx <= Len(VideoCollection[listing].results)
    /\ LET page == VideoPage[VideoCollection[listing].results[itemIdx]]
           keys == get_brightcove_mapping(page, FALSE).keys
       IN  children' = [children EXCEPT ![topic] = AddVideos(@, keys, Len(keys))]
    /\ itemIdx' = itemIdx + 1
    /\ UNCHANGED <<auxVars, pc, subjIdx, listing, collIdx, topic, diskVars, pageVars,
                   logged, raisedFrom>>

scrape_video_collection_result_http_error ==
    /\ pc = "video_collection_loop"
    /\ itemIdx <= Len(VideoCollection[listing].results)
    /\ CollectionHTTPError

scrape_video_collection_result_raises ==
    /\ pc = "video_collection_loop"
    /\ itemIdx <= Len(VideoCollection[listing].results)
    /\ CollectionOtherError

\* Scrape next page (if any)
scrape_video_collection_next_page ==
    /\ pc = "video_collection_loop"
    /\ itemIdx > Len(VideoCollection[listing].results)
    /\ VideoCollection[listing].next # None
    /\ listing' = VideoCollection[listing].next
    /\ pc' = "video_collection"
    /\ UNCHANGED <<auxVars, subjIdx, itemIdx, collIdx, topic, children, diskVars, pageVars,
                   logged, raisedFrom>>

scrape_video_collection_return ==
    /\ pc = "video_collection_loop"
    /\ itemIdx > Len(VideoCollection[listing].results)
    /\ VideoCollection[listing].next = None
    /\ collIdx' = collIdx + 1
    /\ pc' = "video_subject_loop"
    /\ UNCHANGED <<auxVars, subjIdx, listing, itemIdx, topic, children, diskVars, pageVars,
                   logged, raisedFrom>>

\* raise_for_invalid_channel(channel); return channel
construct_channel_return ==
    /\ pc = "validate"
    /\ pc' = "done"
    /\ UNCHANGED <<auxVars, crawlVars, diskVars, pageVars, logged, raisedFrom>>

-----------------------------------------------------------------------------

Next ==
    \/ construct_channel
    \/ scrape_snack_menu_read
    \/ scrape_snack_menu_read_raises
    \/ scrape_snack_menu_next
    \/ scrape_snack_menu_return
    \/ scrape_snack_subject_read
    \/ scrape_snack_subject_read_raises
    \/ scrape_snack_subject_activity
    \/ scrape_snack_subject_result
    \/ scrape_snack_subject_next_page
    \/ scrape_snack_subject_return
    \/ scrape_snack_page_fetch
    \/ scrape_snack_page_fetch_raises
    \/ scrape_snack_page_existing
    \/ scrape_snack_page_open
    \/ scrape_snack_page_styles
    \/ scrape_snack_page_styles_raises
    \/ scrape_snack_page_prune
    \/ scrape_snack_page_images
    \/ scrape_snack_page_images_raises
    \/ scrape_snack_page_video_cached
    \/ download_web_video
    \/ download_ok
    \/ download_error_retry
    \/ download_error_raise
    \/ scrape_snack_page_videos_done
    \/ scrape_snack_page_links
    \/ scrape_snack_page_links_raises
    \/ scrape_snack_page_write
    \/ scrape_snack_page_retry
    \/ scrape_snack_page_give_up
    \/ scrape_video_menu_read
    \/ scrape_video_menu_read_raises
    \/ scrape_video_menu_next
    \/ scrape_video_menu_return
    \/ scrape_video_subject_read
    \/ scrape_video_subject_read_raises
    \/ scrape_video_subject_collection
    \/ scrape_video_subject_return
    \/ scrape_video_collection_read
    \/ scrape_video_collection_read_http_error
    \/ scrape_video_collection_read_raises
    \/ scrape_video_collection_result
    \/ scrape_video_collection_result_http_error
    \/ scrape_video_collection_result_raises
    \/ scrape_video_collection_next_page
    \/ scrape_video_collection_return
    \/ construct_channel_return

Spec == Init /\ [][Next]_vars


-----------------------------------------------------------------------------
(* Properties of the crawl (Spec)                                          *)

\* scrape_snack_page has returned and its value is about to be used
PageHasReturned == pc = "snack_subject_result"

\* C1: when scrape_snack_page is called for a slug with no bundle on disk, some
\* attempt raises and a later attempt ends without raising, the bundle on disk is
\* the one a first successful attempt writes, written by that later attempt and
\* not one found on disk from a failed attempt.
C1_RetryYieldsFirstAttemptBundle ==
    (PageHasReturned /\ ~call.existed /\ call.started > 1 /\ call.outcome # "gave_up")
        => /\ call.outcome = "written"
           /\ bundle[slug] = FullBundle(slug)

\* C2: when every attempt of scrape_snack_page raises, it logs the error and
\* returns a falsy path, and scrape_snack_subject adds no node for the activity.
C2_ExhaustedReturnsNoBundle ==
    /\ (PageHasReturned /\ call.outcome = "gave_up")
            => (call.scrapeLogs = 1 /\ ret.path = NoPath)
    /\ (pc = "snack_subject_loop" /\ call.outcome = "gave_up") => ~call.added

\* C3 as stated: a call for a slug whose bundle is on disk returns the path of the
\* bundle without any fetch of the page and without any call of the downloader.
C3_ExistingBundleNoFetch ==
    (PageHasReturned /\ call.existed)
        => /\ ret.path = write_to_path(slug)
           /\ call.fetches = 0
           /\ call.downloads = 0

\* C3 amended: a call for a slug whose bundle is on disk returns the path of the
\* bundle, never opens the bundle writer and never calls the downloader; it does
\* fetch the page, once in each of its attempts.
C3_ExistingBundleNotRebuilt ==
    (PageHasReturned /\ call.existed)
        => /\ ret.path = write_to_path(slug)
           /\ call.opened = 0
           /\ call.downloads = 0
           /\ call.fetches = call.started
           /\ call.fetches >= 1

C3_Witness ==
    PageHasReturned /\ call.existed /\ call.outcome = "existing"

\* C4: scrape_snack_page makes at most 5 attempts, each from the fetch, and logs
\* the error once when it stops retrying.
C4_AtMostFiveAttempts ==
    /\ call.started <= DefaultAttempts
    /\ call.fetches <= DefaultAttempts
    /\ (PageHasReturned /\ call.outcome = "gave_up") => call.scrapeLogs = 1

\* C5: a failure of the read of an activity subject page, a video subject page or
\* a video collection page never leaves construct_channel.
C5_ListingFailureStaysLocal ==
    raisedFrom \notin {"scrape_snack_subject", "scrape_video_subject",
                       "scrape_video_collection"}

\* C6: download stops at its first success; when every attempt raises a
\* DownloadError it is invoked again DOWNLOAD_ATTEMPTS times and no more, logs the
\* error once and raises it into scrape_snack_page, whose attempt ends without an
\* entry document.
C6_DownloadBudget ==
    /\ call.dlTries <= DOWNLOAD_ATTEMPTS + 1
    /\ pc = "download" => PageVideos(slug)[vidIdx] \notin videoFiles
    /\ call.dlExhausted
          => /\ call.dlTries = DOWNLOAD_ATTEMPTS + 1
             /\ call.dlLogs = 1
             /\ pc \in {"page_except", "snack_subject_result", "snack_subject_loop"}
             /\ call.outcome # "written"
             /\ IndexEntry \notin bundle[slug]

C6_Witness ==
    pc = "page_except" /\ call.dlExhausted /\ call.dlTries = DOWNLOAD_ATTEMPTS + 1


-----------------------------------------------------------------------------
(* SpecMapping: get_brightcove_mapping over bounded pages                  *)

\* most video.bc5player elements, and most playlist items, of a page
MaxEmbeds == 2

RECURSIVE SeqsUpTo(_, _)
SeqsUpTo(S, n) ==
    IF n = 0 THEN {<< >>}
    ELSE LET shorter == SeqsUpTo(S, n - 1)
         IN  shorter \cup {Append(q, x) : q \in {r \in shorter : Len(r) = n - 1}, x \in S}

DirectEmbeds == [account : {"a1", "a2"}, player : {"p1"}, id : {"v1", "v2"}]

PlaylistItems == [id : {"v1", "v2"}, pid : {"p2"}, title : {"Part"}]

MappingPages ==
    [videos : SeqsUpTo(DirectEmbeds, MaxEmbeds),
     attribution : {None, "Exploratorium"},
     has_playlist : {TRUE},
     playlist : SeqsUpTo(PlaylistItems, MaxEmbeds)]
    \cup
    [videos : SeqsUpTo(DirectEmbeds, MaxEmbeds),
     attribution : {None, "Exploratorium"},
     has_playlist : {FALSE},
     playlist : {<< >>}]

MappingInit ==
    /\ MainInit
    /\ LinksIdle
    /\ StyleIdle
    /\ mpc = "call"
    /\ argContents \in MappingPages
    /\ argGetPlaylist \in BOOLEAN
    /\ mapping = EmptyDict

mapping_call ==
    /\ mpc = "call"
    /\ mapping' = get_brightcove_mapping(argContents, argGetPlaylist)
    /\ mpc' = "returned"
    /\ UNCHANGED <<argContents, argGetPlaylist>>

MappingNext == mapping_call /\ UNCHANGED <<mainVars, linkVars, styleVars>>

SpecMapping == MappingInit /\ [][MappingNext]_vars

\* ids of the page's direct embeds, and of its playlist items
DirectIds == {argContents.videos[i].id : i \in DOMAIN argContents.videos}
PlaylistIds == {argContents.playlist[i].id : i \in DOMAIN argContents.playlist}

\* C7: when an id is both a direct embed and a playlist item, the mapping asked
\* with playlists holds one entry for it and that entry is the one built from a
\* direct embed of that id: its element, its attribution, its URL.
C7_DirectEmbedWins ==
    (mpc = "returned" /\ argGetPlaylist /\ argContents.has_playlist)
        => \A k \in DirectIds \cap PlaylistIds :
              /\ Cardinality({i \in DOMAIN mapping.keys : mapping.keys[i] = k}) = 1
              /\ \E i \in DOMAIN argContents.videos :
                    /\ argContents.videos[i].id = k
                    /\ DictGet(mapping, k) = DirectEntry(argContents, i)


-----------------------------------------------------------------------------
(* Strings.  A url or a text is a sequence of tokens, so that `in`,        *)
(* startswith, endswith, split and replace are computed on it.             *)

\* a in b, of two strings
IsSubstr(a, b) ==
    \E i \in 0..(Len(b) - Len(a)) : SubSeq(b, i + 1, i + Len(a)) = a

\* s.replace(old, new)
RECURSIVE StrReplace(_, _, _)
StrReplace(str, old, new) ==
    IF Len(old) = 0 \/ Len(str) < Len(old) THEN str
    ELSE IF SubSeq(str, 1, Len(old)) = old
         THEN new \o StrReplace(SubSeq(str, Len(old) + 1, Len(str)), old, new)
         ELSE <<Head(str)>> \o StrReplace(Tail(str), old, new)

\* tokens that end with "/", tokens that begin with "?", and s.lower()
SlashTokens == {"/", "/snacks/", "/sites/default/files/", "/video/", "images/",
                "img/", "assets/", "../"}
QueryTokens == {"?v=1"}
LowerToken(t) == IF t = ".PNG" THEN ".png" ELSE t
Lower(str) == [i \in DOMAIN str |-> LowerToken(str[i])]

\* url.split("?")[0]
StripQuery(url) ==
    IF \E i \in DOMAIN url : url[i] \in QueryTokens
    THEN SubSeq(url, 1, (CHOOSE i \in DOMAIN url :
                            /\ url[i] \in QueryTokens
                            /\ \A j \in 1..(i - 1) : url[j] \notin QueryTokens) - 1)
    ELSE url

\* url.split("/")[-1]
LastSegment(url) ==
    IF \E i \in DOMAIN url : url[i] \in SlashTokens
    THEN SubSeq(url, (CHOOSE i \in DOMAIN url :
                         /\ url[i] \in SlashTokens
                         /\ \A j \in (i + 1)..Len(url) : url[j] \notin SlashTokens) + 1,
                Len(url))
    ELSE url

EndsWith(str, t) == Len(str) > 0 /\ str[Len(str)] = t

\* the extensions, each as the token that ends a file name (with its dot)
IMAGE_EXTENSIONS == {".jpeg", ".jpg", ".gif", ".png", ".svg"}

\* next((e for e in IMAGE_EXTENSIONS if url.lower().endswith(e)), None)
HasImageExtension(url) == \E e \in IMAGE_EXTENSIONS : EndsWith(Lower(url), e)

\* BASE_URL without its "/{}"
BASE_URL == <<"https://www.", "exploratorium.edu">>

format_url(url) ==
    IF Len(url) > 0 /\ url[1] \in {"https://www.", "http://"}
    THEN url
    ELSE IF Len(url) > 0 /\ url[1] \in {"/", "/snacks/", "/sites/default/files/", "/video/"}
         THEN BASE_URL \o url
         ELSE BASE_URL \o <<"/">> \o url


-----------------------------------------------------------------------------
(* SpecLinks: "Handle links" of scrape_snack_page on one anchor            *)

\* an anchor is "text" (one string child), "mixed" (several children, no img)
\* or "img" (it wraps an img)
AnchorNode(link) == [tag |-> "a", href |-> link.href, text |-> link.text, kind |-> link.kind]
BoldNode(text)   == [tag |-> "b", href |-> << >>, text |-> text, kind |-> "text"]
TextNode(text)   == [tag |-> "text", href |-> << >>, text |-> text, kind |-> "text"]
ImgNode(src)     == [tag |-> "img", href |-> src, text |-> << >>, kind |-> "img"]
VideoNode(src)   == [tag |-> "video", href |-> src, text |-> << >>, kind |-> "text"]

Hrefs ==
    {<<"https://www.", "exploratorium.edu", "/snacks/", "foo">>,
     <<"/snacks/", "foo">>,
     <<"https://www.", "exploratorium.edu", "/sites/default/files/", "sheet", ".pdf">>,
     <<"https://www.", "exploratorium.edu", "/sites/default/files/", "sheet", ".docx">>,
     <<"/sites/default/files/", "sheet", ".docx">>,
     <<"/sites/default/files/", "sheet", ".PNG", "?v=1">>,
     <<"https://www.", "exploratorium.edu", "/video/", "foo">>,
     <<"/video/", "foo">>,
     <<"http://", "example.org", "/", "pic", ".png">>,
     <<"http://", "example.org", "/", "x">>,
     <<"sheet", ".html">>}

Texts == {<<"Exploratorium Snacks">>, <<"foo">>, << >>}

Anchors ==
    [href : Hrefs, text : Texts, kind : {"text", "mixed", "img"}]
        \cup {[href |-> h, text |-> h, kind |-> "text"] : h \in Hrefs}

\* the src of the img an anchor wraps, as the image step left it
WrappedImgSrc == <<"images/", "pic", ".png">>

\* ids of the brightcove videos a linked page of the site can hold
LinkedVideos == {<< >>, <<"v1">>}

LinksInit ==
    /\ MainInit
    /\ MappingIdle
    /\ StyleIdle
    /\ lpc = "links"
    /\ parent \in {"p", "li", "div"}
    /\ outer \in {None, "li"}
    /\ pending = Cardinality({parent} \cap {"p", "li"}) + Cardinality({outer} \cap {"li"})
    /\ applied = << >>
    /\ anchor \in Anchors
    /\ para = <<AnchorNode(anchor)>>
    /\ zipBefore \in {{}, {<<"sheet", ".html">>}}
    /\ zipNames = zipBefore
    /\ linkLog = {}

\* the branch of the if/elif chain an anchor takes
LinkRule(link, zip) ==
    IF link.href \in zip THEN "a"
    ELSE IF IsSubstr(<<"exploratorium.edu", "/snacks/">>, link.href) THEN "b"
    ELSE IF link.kind = "img" THEN "c"
    ELSE IF IsSubstr(<<"/sites/default/files/">>, link.href) THEN "d"
    ELSE IF IsSubstr(<<"exploratorium.edu">>, link.href) THEN "e"
    ELSE IF HasImageExtension(link.href) THEN "f"
    ELSE "g"

\* the anchor tag is still in the tree: paragraph.find_all('a') yields it
AnchorInTree == Len(para) > 0 /\ para[1].tag = "a"

\* the anchor as paragraph.find_all('a') yields it
Link == [href |-> para[1].href, text |-> para[1].text, kind |-> para[1].kind]

\* the anchor is in a p or li and the chain takes branch r for it
AtLink(r) ==
    /\ lpc = "link"
    /\ LinkRule(Link, zipNames) = r

LinkRaises ==
    /\ lpc' = "except"
    /\ UNCHANGED <<parent, anchor, para, zipBefore, zipNames, linkLog, outer, pending,
                   applied>>

\* the next of main_contents.find_all('p') + main_contents.find_all('li') that
\* holds the place of the anchor: its find_all('a') yields the anchor
links_find ==
    /\ lpc = "links"
    /\ pending > 0
    /\ AnchorInTree
    /\ pending' = pending - 1
    /\ lpc' = "link"
    /\ UNCHANGED <<mainVars, mappingVars, styleVars, parent, anchor, para, zipBefore, zipNames,
                   linkLog, outer, applied>>

\* the same, the anchor tag having been replaced: find_all('a') yields nothing
links_replaced ==
    /\ lpc = "links"
    /\ pending > 0
    /\ ~AnchorInTree
    /\ pending' = pending - 1
    /\ UNCHANGED <<mainVars, mappingVars, styleVars, lpc, parent, anchor, para, zipBefore,
                   zipNames, linkLog, outer, applied>>

\* the loops have ended (at once when the anchor is in no p and no li)
links_none ==
    /\ lpc = "links"
    /\ pending = 0
    /\ lpc' = "write"
    /\ UNCHANGED <<mainVars, mappingVars, styleVars, parent, anchor, para, zipBefore, zipNames,
                   linkLog, outer, pending, applied>>

\* Skip any previously parsed links
link_skip ==
    /\ AtLink("a")
    /\ lpc' = "links"
    /\ applied' = Append(applied, "a")
    /\ UNCHANGED <<mainVars, mappingVars, styleVars, parent, outer, pending, anchor,
                   para, zipBefore, zipNames,
                   linkLog>>

\* Just bold activities and remove link
link_bold ==
    /\ AtLink("b")
    /\ para' = <<BoldNode(Link.text)>>
    /\ lpc' = "links"
    /\ applied' = Append(applied, "b")
    /\ UNCHANGED <<mainVars, mappingVars, styleVars, parent, outer, pending, anchor,
                   zipBefore, zipNames, linkLog>>

\* If it's an image, replace the tag with just the image
link_image ==
    /\ AtLink("c")
    /\ para' = <<ImgNode(WrappedImgSrc)>>
    /\ lpc' = "links"
    /\ applied' = Append(applied, "c")
    /\ UNCHANGED <<mainVars, mappingVars, styleVars, parent, outer, pending, anchor,
                   zipBefore, zipNames, linkLog>>

\* generate_download_page: download_url and filename
DownloadUrl(url) == StripQuery(url)
DownloadFilename(url) == LastSegment(DownloadUrl(url))

\* generate_download_page: the link is one of the recognized file types
RecognizedFile(url) ==
    EndsWith(DownloadUrl(url), ".pdf") \/ HasImageExtension(DownloadUrl(url))

\* filename.split('.')[0] + ".html"
DownloadPageName(url) == <<Head(DownloadFilename(url)), ".html">>

\* generate_download_page for a recognized type: the file and the page are stored
\* and the href becomes the path of the page
link_download_page ==
    /\ AtLink("d")
    /\ RecognizedFile(Link.href)
    /\ zipNames' = zipNames \cup {DownloadFilename(Link.href),
                                  DownloadPageName(Link.href)}
    /\ para' = <<[AnchorNode(Link) EXCEPT !.href = DownloadPageName(Link.href)]>>
    /\ lpc' = "links"
    /\ applied' = Append(applied, "d")
    /\ UNCHANGED <<mainVars, mappingVars, styleVars, parent, outer, pending, anchor,
                   zipBefore, linkLog>>

\* zipper.write_url raises
link_download_page_raises ==
    /\ AtLink("d")
    /\ RecognizedFile(Link.href)
    /\ LinkRaises
    /\ UNCHANGED <<mainVars, mappingVars, styleVars>>

\* the href generate_download_page returns for an unknown file type
UnknownFileHref(url) == << >>

\* generate_download_page: LOGGER.error("Unknown file type ..."); return ""
link_unknown_file ==
    /\ AtLink("d")
    /\ ~RecognizedFile(Link.href)
    /\ linkLog' = linkLog \cup {<<"Unknown file type found at", DownloadUrl(Link.href)>>}
    /\ para' = <<[AnchorNode(Link) EXCEPT !.href = UnknownFileHref(Link.href)]>>
    /\ lpc' = "links"
    /\ applied' = Append(applied, "d")
    /\ UNCHANGED <<mainVars, mappingVars, styleVars, parent, outer, pending, anchor,
                   zipBefore, zipNames>>

\* Get any referenced videos: the linked page is read, the link becomes its text
\* without the href, a video tag is appended for each video of the page
link_follow ==
    /\ AtLink("e")
    /\ \E vids \in LinkedVideos :
          /\ para' = <<TextNode(StrReplace(Link.text, Link.href, << >>))>>
                        \o [i \in DOMAIN vids |-> VideoNode(<<"videos/", vids[i], ".mp4">>)]
          /\ zipNames' = zipNames \cup {<<"videos/", vids[i], ".mp4">> : i \in DOMAIN vids}
    /\ lpc' = "links"
    /\ applied' = Append(applied, "e")
    /\ UNCHANGED <<mainVars, mappingVars, styleVars, parent, outer, pending, anchor,
                   zipBefore, linkLog>>

\* read(link['href']) or download_web_video raises
link_follow_raises ==
    /\ AtLink("e")
    /\ LinkRaises
    /\ UNCHANGED <<mainVars, mappingVars, styleVars>>

\* Scrape any images: an img is appended and the link becomes its text
link_embed_image ==
    /\ AtLink("f")
    /\ zipNames' = zipNames \cup {<<"images/">> \o LastSegment(Link.href)}
    /\ para' = <<TextNode(Link.text), ImgNode(<<"images/">> \o LastSegment(Link.href))>>
    /\ lpc' = "links"
    /\ applied' = Append(applied, "f")
    /\ UNCHANGED <<mainVars, mappingVars, styleVars, parent, outer, pending, anchor,
                   zipBefore, linkLog>>

link_embed_image_raises ==
    /\ AtLink("f")
    /\ LinkRaises
    /\ UNCHANGED <<mainVars, mappingVars, styleVars>>

\* if link['href'] not in link.text and link.text not in link['href']
AppendsUrl(link) == ~IsSubstr(link.href, link.text) /\ ~IsSubstr(link.text, link.href)

\* Remove hyperlink from external links
link_external ==
    /\ AtLink("g")
    /\ AppendsUrl(Link) => Link.kind = "text"
    /\ para' = <<TextNode(IF AppendsUrl(Link)
                          THEN Link.text \o <<" (">> \o Link.href \o <<") ">>
                          ELSE Link.text)>>
    /\ lpc' = "links"
    /\ applied' = Append(applied, "g")
    /\ UNCHANGED <<mainVars, mappingVars, styleVars, parent, outer, pending, anchor,
                   zipBefore, zipNames, linkLog>>

\* link.string is None for an anchor with several children: None += str raises
link_external_raises ==
    /\ AtLink("g")
    /\ AppendsUrl(Link)
    /\ Link.kind # "text"
    /\ LinkRaises
    /\ UNCHANGED <<mainVars, mappingVars, styleVars>>

\* zipper.write_index_contents(...)
links_write ==
    /\ lpc = "write"
    /\ zipNames' = zipNames \cup {<<"index", ".html">>}
    /\ lpc' = "done"
    /\ UNCHANGED <<mainVars, mappingVars, styleVars, parent, outer, pending, applied,
                   anchor, para, zipBefore, linkLog>>

LinksNext ==
    \/ links_find
    \/ links_replaced
    \/ links_none
    \/ link_skip
    \/ link_bold
    \/ link_image
    \/ link_download_page
    \/ link_download_page_raises
    \/ link_unknown_file
    \/ link_follow
    \/ link_follow_raises
    \/ link_embed_image
    \/ link_embed_image_raises
    \/ link_external
    \/ link_external_raises
    \/ links_write

SpecLinks == LinksInit /\ [][LinksNext]_vars

\* the link rewriting has ended without raising
LinksRewritten == lpc \in {"write", "done"}

\* the anchor is in a paragraph or a list item
InReadableContent == parent \in {"p", "li"} \/ outer \in {"p", "li"}

\* the href, made absolute, is under the activities of the site
IsActivityLink(href) == IsSubstr(<<"exploratorium.edu", "/snacks/">>, format_url(href))

\* C8: an anchor of a paragraph or list item that links to an activity of the
\* site, by an absolute or a site-relative href, and is not in the bundle, is
\* replaced by a bold element that holds the anchor's text and nothing else.
C8_ActivityLinkBecomesBold ==
    (LinksRewritten /\ InReadableContent /\ IsActivityLink(anchor.href)
        /\ anchor.href \notin zipBefore)
        => para = <<BoldNode(anchor.text)>>

\* C9: for a link to the file storage of the site with an unrecognized extension
\* the error is logged, nothing is stored in the bundle for it, the anchor keeps
\* its href and its text, and the page goes on to its entry document.
C9_UnknownFileLinkUntouched ==
    (InReadableContent /\ LinkRule(anchor, zipBefore) = "d"
        /\ ~RecognizedFile(anchor.href))
        => /\ lpc # "except"
           /\ LinksRewritten
                => /\ <<"Unknown file type found at", DownloadUrl(anchor.href)>> \in linkLog
                   /\ para = <<AnchorNode(anchor)>>
                   /\ zipNames \ {<<"index", ".html">>} = zipBefore
           /\ lpc = "done" => <<"index", ".html">> \in zipNames


-----------------------------------------------------------------------------
(* SpecStyle: scrape_style(url, zipper)                                    *)

\* most urls of a stylesheet, and most scrape_style calls of a run
MaxUrls == 2
MaxSheets == 2

\* the urls a stylesheet of the site can refer to
StyleUrls == {<<"icon", ".png">>, <<"img/", "icon", ".png">>, <<"img/", "bg", ".gif">>}

\* filename = url.split('?')[0].split('/')[-1]
StyleFilename(url) == LastSegment(StripQuery(url))

\* "../" + new_url, new_url being what write_file(..., directory="assets") returns
AssetPath(filename) == <<"../", "assets/">> \o filename

\* rules.replace(url, "../" + new_url) on the text of every reference
ReplaceInRules(text, url, new) == [i \in DOMAIN text |-> StrReplace(text[i], url, new)]

StyleInit ==
    /\ MainInit
    /\ MappingIdle
    /\ LinksIdle
    /\ spc = "parse"
    /\ sheet = << >>
    /\ rules = << >>
    /\ urlIdx = 1
    /\ zipper = None
    /\ cache = [f \in AssetFilenames |-> "absent"]
    /\ fetched = [f \in AssetFilenames |-> 0]
    /\ assets = [b \in Bundles |-> {}]
    /\ httpFailed = {}
    /\ nSheets = 0

\* sheet = cssutils.parseUrl(url); rules = sheet.cssText.decode('utf-8')
scrape_style_parse ==
    /\ spc \in {"parse", "returned", "raised"}
    /\ nSheets < MaxSheets
    /\ sheet' \in SeqsUpTo(StyleUrls, MaxUrls)
    /\ zipper' \in Bundles
    /\ rules' = sheet'
    /\ urlIdx' = 1
    /\ httpFailed' = {}
    /\ nSheets' = nSheets + 1
    /\ spc' = "urls"
    /\ UNCHANGED <<mainVars, mappingVars, linkVars, cache, fetched, assets>>

\* the url the loop over cssutils.getUrls(sheet) is at, and its file
CurrentUrl == sheet[urlIdx]
CurrentFile == StyleFilename(CurrentUrl)

AtStyleUrl ==
    /\ spc = "urls"
    /\ urlIdx <= Len(sheet)

\* os.path.isfile(filepath), of the shared asset directory
IsCached(filename) == cache[filename] # "absent"

\* new_url = zipper.write_file(filepath, filename, directory="assets"): the file is
\* copied unless the zip holds the name; then rules = rules.replace(url, ...)
StoreAndReplace(content) ==
    /\ assets' = [assets EXCEPT ![zipper] =
                     IF \E e \in @ : e[1] = CurrentFile
                     THEN @ ELSE @ \cup {<<CurrentFile, content>>}]
    /\ rules' = ReplaceInRules(rules, CurrentUrl, AssetPath(CurrentFile))
    /\ urlIdx' = urlIdx + 1

\* the file is in the shared asset directory: no read
scrape_style_url_cached ==
    /\ AtStyleUrl
    /\ IsCached(CurrentFile)
    /\ StoreAndReplace(cache[CurrentFile])
    /\ UNCHANGED <<mainVars, mappingVars, linkVars, spc, sheet, zipper, cache,
                   fetched, httpFailed, nSheets>>

\* with open(filepath, 'wb') as fobj: fobj.write(read(url))
scrape_style_url_fetch ==
    /\ AtStyleUrl
    /\ ~IsCached(CurrentFile)
    /\ cache' = [cache EXCEPT ![CurrentFile] = "full"]
    /\ fetched' = [fetched EXCEPT ![CurrentFile] = @ + 1]
    /\ StoreAndReplace("full")
    /\ UNCHANGED <<mainVars, mappingVars, linkVars, spc, sheet, zipper, httpFailed,
                   nSheets>>

\* read(url) raises HTTPError after open(filepath, 'wb') has created the file:
\* LOGGER.warning(...) and the loop goes on
scrape_style_url_http_error ==
    /\ AtStyleUrl
    /\ ~IsCached(CurrentFile)
    /\ cache' = [cache EXCEPT ![CurrentFile] = "empty"]
    /\ fetched' = [fetched EXCEPT ![CurrentFile] = @ + 1]
    /\ httpFailed' = httpFailed \cup {CurrentUrl}
    /\ urlIdx' = urlIdx + 1
    /\ UNCHANGED <<mainVars, mappingVars, linkVars, spc, sheet, rules, zipper,
                   assets, nSheets>>

\* read(url) raises another exception: it leaves scrape_style
scrape_style_url_raises ==
    /\ AtStyleUrl
    /\ ~IsCached(CurrentFile)
    /\ cache' = [cache EXCEPT ![CurrentFile] = "empty"]
    /\ fetched' = [fetched EXCEPT ![CurrentFile] = @ + 1]
    /\ spc' = "raised"
    /\ UNCHANGED <<mainVars, mappingVars, linkVars, sheet, rules, urlIdx, zipper,
                   assets, httpFailed, nSheets>>

\* return rules
scrape_style_return ==
    /\ spc = "urls"
    /\ urlIdx > Len(sheet)
    /\ spc' = "returned"
    /\ UNCHANGED <<mainVars, mappingVars, linkVars, sheet, rules, urlIdx, zipper,
                   cache, fetched, assets, httpFailed, nSheets>>

StyleNext ==
    \/ scrape_style_parse
    \/ scrape_style_url_cached
    \/ scrape_style_url_fetch
    \/ scrape_style_url_http_error
    \/ scrape_style_url_raises
    \/ scrape_style_return

SpecStyle == StyleInit /\ [][StyleNext]_vars

\* C10: over the scrape_style calls of a run no filename is read from the network
\* more than once, and the text a call returns has, in the place of every url of
\* the stylesheet, the path of the file under assets/ relative to the stylesheet.
C10_FetchedOnceAndRewritten ==
    /\ \A f \in AssetFilenames : fetched[f] <= 1
    /\ spc = "returned"
          => \A i \in DOMAIN sheet : rules[i] = AssetPath(StyleFilename(sheet[i]))


-----------------------------------------------------------------------------
(* Claims over the trees the crawl builds (Spec)                           *)

\* the source_ids of a topic's children hold no id twice
NoRepeatedSourceId(kids) ==
    \A i, j \in DOMAIN kids : kids[i] = kids[j] => i = j

\* C11: in neither tree does a topic have two leaf children with the same
\* source_id, whatever the listing pages repeat: a leaf whose id is among the
\* topic's children is not added again.
C11_UniqueSourceIdPerTopic ==
    \A t \in Topics : NoRepeatedSourceId(children[t])


-----------------------------------------------------------------------------
(* Claims over the order of the link rules (SpecLinks)                     *)

\* the rule the anchor of the fetched page matches first, in the order a to g
FirstRule == LinkRule(anchor, zipBefore)

\* C12: an anchor inside a paragraph or list item gets the first rule of a to g
\* whose condition holds and no other rule after it (an element met again can
\* only be skipped by rule a); an anchor that is in the bundle is left as it
\* was, and so is an anchor outside paragraphs and list items.
C12_FirstMatchingRuleOnly ==
    LinksRewritten =>
        /\ ~InReadableContent => (applied = << >> /\ para = <<AnchorNode(anchor)>>)
        /\ InReadableContent =>
              /\ Len(applied) > 0
              /\ applied[1] = FirstRule
              /\ \A i \in 2..Len(applied) : applied[i] = "a"
        /\ (InReadableContent /\ FirstRule = "a") => para = <<AnchorNode(anchor)>>


-----------------------------------------------------------------------------
(* Claims over the steps of scrape_snack_page (Spec)                       *)

\* the positions of an attempt
PageSteps == {"page_fetch", "page_check", "page_styles", "page_prune", "page_images",
              "page_videos", "download", "page_links", "page_write"}

\* the position that follows p in the order fetch, stylesheets, pruning, images,
\* videos, links, serialization and write (the downloads are part of the videos)
StepAfter(p) ==
    CASE p = "page_fetch"  -> {"page_check"}
      [] p = "page_check"  -> {"page_styles", "snack_subject_result"}
      [] p = "page_styles" -> {"page_prune"}
      [] p = "page_prune"  -> {"page_images"}
      [] p = "page_images" -> {"page_videos"}
      [] p = "page_videos" -> {"download", "page_links"}
      [] p = "download"    -> {"page_videos"}
      [] p = "page_links"  -> {"page_write"}
      [] p = "page_write"  -> {"snack_subject_result"}

\* this step writes the entry document of s
WritesIndex(s) == IndexEntry \in bundle'[s] /\ IndexEntry \notin bundle[s]

-----------------------------------------------------------------------------
(* Claims over the account of the playlist items (SpecMapping)             *)

\* the call asked for the playlist of a page that has one, and has returned
PlaylistMapped == mpc = "returned" /\ argGetPlaylist /\ argContents.has_playlist

\* every playlist item has one entry under its id, with the url of the account a
PlaylistUrlsUse(a) ==
    \A i \in DOMAIN argContents.playlist :
        LET item == argContents.playlist[i]
        IN  /\ Cardinality({j \in DOMAIN mapping.keys : mapping.keys[j] = item.id}) = 1
            /\ DictGet(mapping, item.id).url = BRIGHTCOVE_URL(a, item.pid, item.id)

\* data-account of the first, and of the last, video.bc5player of the page
FirstDirectAccount ==
    IF argContents.videos = << >> THEN "" ELSE argContents.videos[1].account
LastDirectAccount ==
    IF argContents.videos = << >> THEN ""
    ELSE argContents.videos[Len(argContents.videos)].account

\* C14 as stated: the url of every playlist item is built with the account of
\* the first direct embed of the page, and with "" when there is none.
C14_PlaylistUsesFirstAccount == PlaylistMapped => PlaylistUrlsUse(FirstDirectAccount)

\* C14: the url of every playlist item is built with the account of the last
\* direct embed of the page, and with "" when the page has none; the mapping
\* holds one entry for each id among the playlist items.
C14_PlaylistUsesLastAccount == PlaylistMapped => PlaylistUrlsUse(LastDirectAccount)

\* a playlist is mapped on a page whose direct embeds differ in their account
C14_Witness ==
    /\ PlaylistMapped
    /\ argContents.playlist # << >>
    /\ FirstDirectAccount # LastDirectAccount


-----------------------------------------------------------------------------
(* Claims over the files left on disk (SpecStyle, Spec)                    *)

\* C15: the shared asset directory holds a file for a filename only if a read
\* of that asset succeeded: a read that fails with an HTTP error leaves no file
\* there, so no bundle gets an empty or partial copy of it.
C15_CacheHoldsOnlyFetchedFiles ==
    /\ \A f \in AssetFilenames : cache[f] \in {"absent", "full"}
    /\ \A b \in Bundles : \A e \in assets[b] : e[2] = "full"

\* C16: when scrape_snack_page returns, after a success, after a retry or with
\* its attempts used up, a bundle file is on disk at the path of a slug only if
\* its entry document was written.
C16_BundleOnDiskHasIndex ==
    PageHasReturned => \A s \in onDisk : IndexEntry \in bundle[s]


====
